---------------------------- MODULE Spec2Model ----------------------------
(***************************************************************************)
(* Model of the code that crdts_macro's #[crdt] attribute and CRDT derive  *)
(* generate (src/derive/src/lib.rs) for the aggregate                       *)
(*                                                                          *)
(*     #[crdt(Actor)] struct Data { c: GCounter<Actor>, s: GSet<Elem> }     *)
(*                                                                          *)
(* The attribute appends the field  v_clock: VClock<Actor>  (the tracker)   *)
(* and the derive generates CmRDT::apply / validate_op and CvRDT::merge /   *)
(* validate_merge by iterating a HashMap of the fields.  A second struct,   *)
(*                                                                          *)
(*     #[crdt(Actor)] struct Outer { inner: Data, w: LWWReg<Val, Marker> }  *)
(*                                                                          *)
(* nests the first, so that the same generated code runs at two levels.     *)
(* The field types and VClock come from the crdts crate; they are modelled  *)
(* from their documented contract.                                          *)
(***************************************************************************)
EXTENDS Naturals, Sequences, FiniteSets, TLC

\* -------------------------------------------------------------- bounds --
\* Highest dot counter an aggregate operation carries.
MaxCounter == 2
\* Highest dot counter used where three aggregates are merged (SpecMerge).
MaxMergeCounter == 1

Actors == {"A", "B"}
Elems == {"x"}
Replicas == {"r1", "r2", "r3"}
Peers == {"r1", "r2"}

\* ------------------------------------------------------------ state --
VARIABLES
    order,      \* the HashMap's iteration order of Data in this build
    rep,        \* each replica's aggregate
    delivered,  \* history: the issued dots delivered to each replica
    times,      \* history: how often each dot's entries were applied there
    last,       \* history: the last call made (SpecCall, SpecOuter..)
    pre,        \* history: the called aggregate before that call
    outerOrder, \* the HashMap's iteration order of Outer in this build
    outer       \* two aggregates of the nesting struct Outer

vars == <<order, rep, delivered, times, last, pre, outerOrder, outer>>

\* ---------------------------------------------------------- Option<T> --
None == <<>>
Some(v) == <<v>>
Option(S) == {None} \cup {Some(v) : v \in S}

\* ---------------------------------------------------------- Dot, VClock --
Dot(a, n) == [actor |-> a, counter |-> n]

\* A VClock is the map actor -> counter; an absent actor reads as 0 and a
\* zero counter is never stored, so the map is the total function.
VClockDefault == [a \in Actors |-> 0]

VClockGet(v, a) == v[a]

VClockApply(v, dot) ==
    IF VClockGet(v, dot.actor) < dot.counter
    THEN [v EXCEPT ![dot.actor] = dot.counter]
    ELSE v

VClockValidateOp(v, dot) ==
    IF dot.counter <= VClockGet(v, dot.actor) THEN "Stale" ELSE "Ok"

Max(a, b) == IF a >= b THEN a ELSE b

VClockMerge(v, w) == [a \in Actors |-> Max(v[a], w[a])]

VClockValidateMerge(v, w) == "Ok"

\* ------------------------------------------------------- field types --
\* GCounter: a VClock inside; its operation is the Dot that inc() returned.
GCounterApply(g, dot) == VClockApply(g, dot)
GCounterValidateOp(g, dot) == VClockValidateOp(g, dot)
GCounterMerge(g, h) == VClockMerge(g, h)
GCounterValidateMerge(g, h) == VClockValidateMerge(g, h)

\* GSet: its operation is the member to insert; validation cannot fail.
GSetApply(s, member) == s \cup {member}
GSetValidateOp(s, member) == "Ok"
GSetMerge(s, t) == s \cup t
GSetValidateMerge(s, t) == "Ok"

\* LWWReg: a value under a marker; its operation is a register to adopt.
\* A higher marker wins, and an equal marker with another value conflicts.
LWWRegDefault == [val |-> "", marker |-> 0]
LWWRegApply(w, wop) == IF w.marker < wop.marker THEN wop ELSE w
LWWRegValidateOp(w, wop) ==
    IF w.marker = wop.marker /\ w.val # wop.val
    THEN "ConflictingMarker" ELSE "Ok"
LWWRegMerge(w, x) == LWWRegApply(w, x)
LWWRegValidateMerge(w, x) == LWWRegValidateOp(w, x)

\* ------------------------------------------------------------ schema --
\* The struct as declared, with the tracker the attribute pushes last.
DeclaredFields == <<"c", "s", "v_clock">>

FieldNames == {DeclaredFields[i] : i \in 1..Len(DeclaredFields)}

\* list_fields collects the fields into a HashMap: every function below
\* iterates it, in an order fixed for one expansion and arbitrary across
\* builds.
FieldOrders ==
    {o \in [1..Len(DeclaredFields) -> FieldNames] :
        \A f \in FieldNames : \E i \in 1..Len(DeclaredFields) : o[i] = f}

\* The nesting struct as declared, and the orders of its HashMap.
OuterDeclaredFields == <<"inner", "w", "v_clock">>

OuterFieldNames ==
    {OuterDeclaredFields[i] : i \in 1..Len(OuterDeclaredFields)}

OuterFieldOrders ==
    {o \in [1..Len(OuterDeclaredFields) -> OuterFieldNames] :
        \A f \in OuterFieldNames :
            \E i \in 1..Len(OuterDeclaredFields) : o[i] = f}

IsNotTracker(f) == f # "v_clock"

NonTracker(o) == SelectSeq(o, IsNotTracker)

\* build_op: the tracker's entry is `dot`, every other field's `<name>_op`.
OpName(f) == IF f = "v_clock" THEN "dot" ELSE f \o "_op"

\* The variant of the error enums for a field: its name in Pascal case.
PascalName(f) ==
    CASE f = "c" -> "C"
      [] f = "s" -> "S"
      [] f = "v_clock" -> "VClock"
      [] f = "inner" -> "Inner"
      [] f = "w" -> "W"

\* A field's Validation value as the enclosing variant carries it: Debug
\* text of the variant and of what it wraps.
ErrText(r) ==
    IF r.ok THEN "Ok"
    ELSE IF r.inner = "" THEN r.variant
    ELSE r.variant \o "(" \o r.inner \o ")"

\* The field `inner` is itself a generated aggregate: its four functions
\* are the ones defined below, run with Data's HashMap order.
RECURSIVE apply(_, _, _)
RECURSIVE validate_op(_, _, _)
RECURSIVE merge(_, _, _)
RECURSIVE validate_merge(_, _, _)

\* self.<field>.apply(op), by the field's declared type.
FieldApply(f, val, fop) ==
    CASE f = "c" -> GCounterApply(val, fop)
      [] f = "s" -> GSetApply(val, fop)
      [] f = "v_clock" -> VClockApply(val, fop)
      [] f = "inner" -> apply(order, val, fop)
      [] f = "w" -> LWWRegApply(val, fop)

\* self.<field>.validate_op(op), by the field's declared type.
FieldValidateOp(f, val, fop) ==
    CASE f = "c" -> GCounterValidateOp(val, fop)
      [] f = "s" -> GSetValidateOp(val, fop)
      [] f = "v_clock" -> VClockValidateOp(val, fop)
      [] f = "inner" -> ErrText(validate_op(order, val, fop))
      [] f = "w" -> LWWRegValidateOp(val, fop)

\* self.<field>.merge(other.<field>), by the field's declared type.
FieldMerge(f, val, other) ==
    CASE f = "c" -> GCounterMerge(val, other)
      [] f = "s" -> GSetMerge(val, other)
      [] f = "v_clock" -> VClockMerge(val, other)
      [] f = "inner" -> merge(order, val, other)
      [] f = "w" -> LWWRegMerge(val, other)

\* self.<field>.validate_merge(&other.<field>), by the field's declared type.
FieldValidateMerge(f, val, other) ==
    CASE f = "c" -> GCounterValidateMerge(val, other)
      [] f = "s" -> GSetValidateMerge(val, other)
      [] f = "v_clock" -> VClockValidateMerge(val, other)
      [] f = "inner" -> ErrText(validate_merge(order, val, other))
      [] f = "w" -> LWWRegValidateMerge(val, other)

\* #[derive(Default)]: every field default, the tracker empty.
DefaultState == [c |-> VClockDefault, s |-> {}, v_clock |-> VClockDefault]

OuterDefaultState ==
    [inner |-> DefaultState, w |-> LWWRegDefault, v_clock |-> VClockDefault]

\* ------------------------------------------------------- input sets --
\* Dots of aggregate operations; counter 0 is a dot no tracker accepts.
Dots == {Dot(a, n) : a \in Actors, n \in 0..MaxCounter}

\* Operations offered to the counter field and to the set field.
CounterOps == {Dot("A", 1)}
SetOps == Elems

Ops == [dot : Dots, c_op : Option(CounterOps), s_op : Option(SetOps)]

\* ------------------------------------------------- generated: apply --
\* count_none / the `(None, None, ..)` arm: every field entry is absent.
AllNone(o, op) ==
    \A i \in 1..Len(NonTracker(o)) : op[OpName(NonTracker(o)[i])] = None

\* The fields whose `if let Some(op) = <name>_op` arm runs.
Present(o, op) ==
    {NonTracker(o)[i] : i \in {j \in 1..Len(NonTracker(o)) :
                                  op[OpName(NonTracker(o)[j])] # None}}

\* #(#apply)*: one `if let Some(..) { self.<field>.apply(..) }` per field,
\* in the HashMap's order.
RECURSIVE applyFields(_, _, _)
applyFields(fs, self, op) ==
    IF fs = <<>> THEN self
    ELSE LET f == Head(fs)
             fop == op[OpName(f)]
             next == IF fop # None
                     THEN [self EXCEPT ![f] = FieldApply(f, @, fop[1])]
                     ELSE self
         IN  applyFields(Tail(fs), next, op)

\* A fault: the stale-dot return is missing.
applyRun_NoStaleReturn(o, self, op) ==
    IF AllNone(o, op)
    THEN [state |-> self, delegated |-> {}]
    ELSE [state |-> [applyFields(NonTracker(o), self, op)
                        EXCEPT !.v_clock = VClockApply(@, op.dot)],
          delegated |-> Present(o, op)]

\* A fault: the all-None arm falls through to self.v_clock.apply(dot).
applyRun_RecordsEmpty(o, self, op) ==
    IF VClockGet(self.v_clock, op.dot.actor) >= op.dot.counter
    THEN [state |-> self, delegated |-> {}]
    ELSE [state |-> [applyFields(NonTracker(o), self, op)
                        EXCEPT !.v_clock = VClockApply(@, op.dot)],
          delegated |-> Present(o, op)]

\* A fault: the tracker is stepped by one instead of being given the dot.
applyRun_StepsTracker(o, self, op) ==
    IF VClockGet(self.v_clock, op.dot.actor) >= op.dot.counter
    THEN [state |-> self, delegated |-> {}]
    ELSE IF AllNone(o, op)
    THEN [state |-> self, delegated |-> {}]
    ELSE [state |-> [applyFields(NonTracker(o), self, op)
                        EXCEPT !.v_clock[op.dot.actor] = @ + 1],
          delegated |-> Present(o, op)]

\* A fault: only the first present entry is applied.
applyRun_FirstEntryOnly(o, self, op) ==
    IF VClockGet(self.v_clock, op.dot.actor) >= op.dot.counter
    THEN [state |-> self, delegated |-> {}]
    ELSE IF AllNone(o, op)
    THEN [state |-> self, delegated |-> {}]
    ELSE LET first == CHOOSE i \in 1..Len(NonTracker(o)) :
                        /\ op[OpName(NonTracker(o)[i])] # None
                        /\ \A j \in 1..(i - 1) :
                               op[OpName(NonTracker(o)[j])] = None
         IN [state |-> [applyFields(<<NonTracker(o)[first]>>, self, op)
                           EXCEPT !.v_clock = VClockApply(@, op.dot)],
             delegated |-> {NonTracker(o)[first]}]

\* A fault: self.v_clock.apply(dot) is missing.
applyRun_NoTrackerRecord(o, self, op) ==
    IF VClockGet(self.v_clock, op.dot.actor) >= op.dot.counter
    THEN [state |-> self, delegated |-> {}]
    ELSE IF AllNone(o, op)
    THEN [state |-> self, delegated |-> {}]
    ELSE [state |-> applyFields(NonTracker(o), self, op),
          delegated |-> Present(o, op)]

\* The body of CmRDT::apply: the state it leaves and the fields whose own
\* apply it called.
applyRun(o, self, op) ==
    IF VClockGet(self.v_clock, op.dot.actor) >= op.dot.counter
    THEN [state |-> self, delegated |-> {}]
    ELSE IF AllNone(o, op)
    THEN [state |-> self, delegated |-> {}]
    ELSE [state |-> [applyFields(NonTracker(o), self, op)
                        EXCEPT !.v_clock = VClockApply(@, op.dot)],
          delegated |-> Present(o, op)]

apply(o, self, op) == applyRun(o, self, op).state

\* ------------------------------------------- generated: validate_op --
Ok == [ok |-> TRUE, variant |-> "", inner |-> ""]
Err(variant, inner) == [ok |-> FALSE, variant |-> variant, inner |-> inner]

\* #(#validate)*: each present entry's own validate_op, `?` returning the
\* first failure wrapped in the field's variant.
RECURSIVE validateFields(_, _, _)
validateFields(fs, self, op) ==
    IF fs = <<>> THEN Ok
    ELSE LET f == Head(fs)
             fop == op[OpName(f)]
             e == IF fop # None
                  THEN FieldValidateOp(f, self[f], fop[1])
                  ELSE "Ok"
         IN  IF e # "Ok" THEN Err(PascalName(f), e)
             ELSE validateFields(Tail(fs), self, op)

\* A fault: the emptiness test comes before the tracker's validation.
validate_op_EmptyFirst(o, self, op) ==
    IF AllNone(o, op) THEN Err("NoneOp", "")
    ELSE LET e == VClockValidateOp(self.v_clock, op.dot)
         IN  IF e # "Ok" THEN Err(PascalName("v_clock"), e)
             ELSE validateFields(NonTracker(o), self, op)

\* A fault: the all-None arm is missing and the empty operation passes.
validate_op_AcceptsEmpty(o, self, op) ==
    LET e == VClockValidateOp(self.v_clock, op.dot)
    IN  IF e # "Ok" THEN Err(PascalName("v_clock"), e)
        ELSE validateFields(NonTracker(o), self, op)

\* A fault: the entries are validated before the tracker.
validate_op_FieldsFirst(o, self, op) ==
    LET r == validateFields(NonTracker(o), self, op)
        e == VClockValidateOp(self.v_clock, op.dot)
    IN  IF ~r.ok THEN r
        ELSE IF e # "Ok" THEN Err(PascalName("v_clock"), e)
        ELSE IF AllNone(o, op) THEN Err("NoneOp", "")
        ELSE Ok

\* The body of CmRDT::validate_op.
validate_op(o, self, op) ==
    LET e == VClockValidateOp(self.v_clock, op.dot)
    IN  IF e # "Ok" THEN Err(PascalName("v_clock"), e)
        ELSE IF AllNone(o, op) THEN Err("NoneOp", "")
        ELSE validateFields(NonTracker(o), self, op)

\* ------------------------------------------------- generated: merge --
RECURSIVE mergeFields(_, _, _)
mergeFields(fs, self, other) ==
    IF fs = <<>> THEN self
    ELSE LET f == Head(fs)
         IN  mergeFields(Tail(fs),
                         [self EXCEPT ![f] = FieldMerge(f, @, other[f])],
                         other)

\* A fault: the tracker is filtered out, as it is in apply and validate_op.
merge_SkipsTracker(o, self, other) == mergeFields(NonTracker(o), self, other)

\* A fault: a merge is recorded as an event of its own, every actor the
\* other side knows being stepped past the joined counter.
merge_StepsTracker(o, self, other) ==
    [mergeFields(o, self, other) EXCEPT
        !.v_clock = [a \in Actors |->
                        IF other.v_clock[a] > 0 THEN @[a] + 1 ELSE @[a]]]

\* A fault: the tracker is taken from the other side instead of joined.
merge_TakesOtherTracker(o, self, other) ==
    [mergeFields(NonTracker(o), self, other) EXCEPT !.v_clock = other.v_clock]

\* The body of CvRDT::merge: every field of the HashMap, tracker included.
merge(o, self, other) == mergeFields(o, self, other)

\* ------------------------------------- generated: validate_merge --
RECURSIVE validateMergeFields(_, _, _)
validateMergeFields(fs, self, other) ==
    IF fs = <<>> THEN Ok
    ELSE LET f == Head(fs)
             e == FieldValidateMerge(f, self[f], other[f])
         IN  IF e # "Ok" THEN Err(PascalName(f), e)
             ELSE validateMergeFields(Tail(fs), self, other)

\* A fault: only the trailing Ok(()) is left of the body.
validate_merge_OkOnly(o, self, other) == Ok

\* The body of CvRDT::validate_merge.
validate_merge(o, self, other) == validateMergeFields(o, self, other)

\* ------------------------------------------------------- the system --
\* The operations the actors issued: each actor numbers its own from 1, and
\* each dot names one operation.  (A,1) increments the counter and (B,1)
\* inserts x; the second operation of each actor touches the other field.
IssuedDots == {Dot(a, n) : a \in Actors, n \in 1..MaxCounter}

IssuedOp(d) ==
    IF (d.actor = "A") = (d.counter % 2 = 1)
    THEN [dot |-> d, c_op |-> Some(Dot("A", 1)), s_op |-> None]
    ELSE [dot |-> d, c_op |-> None, s_op |-> Some("x")]

NoCall == [kind |-> "none", op |-> IssuedOp(Dot("A", 1)), res |-> Ok]

Init ==
    /\ order \in FieldOrders
    /\ rep = [r \in Replicas |-> DefaultState]
    /\ delivered = [r \in Peers |-> {}]
    /\ times = [r \in Peers |-> [d \in IssuedDots |-> 0]]
    /\ last = NoCall
    /\ pre = DefaultState
    /\ outerOrder = OuterDeclaredFields
    /\ outer = [x \in {"self", "other"} |-> OuterDefaultState]

\* An issued operation reaches replica r (again, and in any order).
Deliver(r, d) ==
    LET run == applyRun(order, rep[r], IssuedOp(d))
    IN  /\ rep' = [rep EXCEPT ![r] = run.state]
        /\ delivered' = [delivered EXCEPT ![r] = @ \cup {d}]
        /\ times' = IF run.delegated = {} THEN times
                    ELSE [times EXCEPT ![r][d] = IF @ < 2 THEN @ + 1 ELSE @]
        /\ UNCHANGED <<order, last, pre, outerOrder, outer>>

\* The same delivery where states are merged too; the history keeps only
\* how often each dot's entries were applied.
Receive(r, d) ==
    LET run == applyRun(order, rep[r], IssuedOp(d))
    IN  /\ rep' = [rep EXCEPT ![r] = run.state]
        /\ times' = IF run.delegated = {} THEN times
                    ELSE [times EXCEPT ![r][d] = IF @ < 2 THEN @ + 1 ELSE @]
        /\ UNCHANGED <<order, delivered, last, pre, outerOrder, outer>>

\* Replica r merges a copy of replica q's aggregate.
MergeFrom(r, q) ==
    /\ r # q
    /\ rep' = [rep EXCEPT ![r] = merge(order, rep[r], rep[q])]
    /\ UNCHANGED <<order, delivered, times, last, pre, outerOrder, outer>>

\* One aggregate called with any operation: apply.
CallApply(op) ==
    /\ pre' = rep["r1"]
    /\ rep' = [rep EXCEPT !["r1"] = apply(order, rep["r1"], op)]
    /\ last' = [kind |-> "apply", op |-> op, res |-> Ok]
    /\ UNCHANGED <<order, delivered, times, outerOrder, outer>>

\* One aggregate called with any operation: validate_op.
CallValidateOp(op) ==
    /\ pre' = rep["r1"]
    /\ rep' = rep
    /\ last' = [kind |-> "validate_op", op |-> op,
                res |-> validate_op(order, rep["r1"], op)]
    /\ UNCHANGED <<order, delivered, times, outerOrder, outer>>

\* Three aggregates, each applying any operation and merging any other.
ApplyAt(r, op) ==
    /\ op.dot.counter <= MaxMergeCounter
    /\ rep' = [rep EXCEPT ![r] = apply(order, rep[r], op)]
    /\ UNCHANGED <<order, delivered, times, last, pre, outerOrder, outer>>

MergeAt(r, q) ==
    /\ r # q
    /\ rep' = [rep EXCEPT ![r] = merge(order, rep[r], rep[q])]
    /\ UNCHANGED <<order, delivered, times, last, pre, outerOrder, outer>>

\* The replicated system: operations delivered at least once in any order,
\* and states merged.
Next ==
    \/ \E r \in Peers, d \in IssuedDots : Receive(r, d)
    \/ \E r \in Peers, q \in Peers : MergeFrom(r, q)

Spec == Init /\ [][Next]_vars

\* Operation delivery alone.
NextDeliver == \E r \in Peers, d \in IssuedDots : Deliver(r, d)

SpecDeliver == Init /\ [][NextDeliver]_vars

\* One aggregate and the calls of the operation contract.
NextCall ==
    \/ \E op \in Ops : CallApply(op)
    \/ \E op \in Ops : CallValidateOp(op)

SpecCall == Init /\ [][NextCall]_vars

\* Three aggregates built by apply and merge.
NextMerge ==
    \/ \E r \in Replicas, op \in Ops : ApplyAt(r, op)
    \/ \E r \in Replicas, q \in Replicas : MergeAt(r, q)

SpecMerge == Init /\ [][NextMerge]_vars

\* ------------------------------------------------- the nesting struct --
\* Operations offered to Outer.  Its own dots come from one actor; the
\* inner operation is a fresh increment of Data or an all-absent operation
\* of Data, and the register is offered two values under the same marker.
OuterDots == {Dot("A", n) : n \in 0..MaxCounter}

InnerOps ==
    {[dot |-> Dot("A", 1), c_op |-> Some(Dot("A", 1)), s_op |-> None],
     [dot |-> Dot("B", 1), c_op |-> None, s_op |-> None]}

WOps == {[val |-> "u", marker |-> 1], [val |-> "v", marker |-> 1]}

OuterOps == [dot : OuterDots, inner_op : Option(InnerOps), w_op : Option(WOps)]

InitOuter ==
    /\ order \in FieldOrders
    /\ outerOrder \in OuterFieldOrders
    /\ rep = [r \in Replicas |-> DefaultState]
    /\ delivered = [r \in Peers |-> {}]
    /\ times = [r \in Peers |-> [d \in IssuedDots |-> 0]]
    /\ last = NoCall
    /\ pre = OuterDefaultState
    /\ outer = [x \in {"self", "other"} |-> OuterDefaultState]

\* Outer called with any operation: apply.
CallOuterApply(op) ==
    /\ pre' = outer["self"]
    /\ outer' = [outer EXCEPT !["self"] = apply(outerOrder, @, op)]
    /\ last' = [kind |-> "apply", op |-> op, res |-> Ok]
    /\ UNCHANGED <<order, rep, delivered, times, outerOrder>>

\* Outer called with any operation: validate_op(&self, &op).
CallOuterValidateOp(op) ==
    /\ pre' = outer["self"]
    /\ outer' = outer
    /\ last' = [kind |-> "validate_op", op |-> op,
                res |-> validate_op(outerOrder, outer["self"], op)]
    /\ UNCHANGED <<order, rep, delivered, times, outerOrder>>

\* Two Outer aggregates, built by apply and merge without a record.
OuterApplyAt(x, op) ==
    /\ op.dot.counter <= MaxMergeCounter
    /\ outer' = [outer EXCEPT ![x] = apply(outerOrder, @, op)]
    /\ last' = NoCall
    /\ pre' = OuterDefaultState
    /\ UNCHANGED <<order, rep, delivered, times, outerOrder>>

OuterMergeAt(x, y) ==
    /\ x # y
    /\ outer' = [outer EXCEPT ![x] = merge(outerOrder, @, outer[y])]
    /\ last' = NoCall
    /\ pre' = OuterDefaultState
    /\ UNCHANGED <<order, rep, delivered, times, outerOrder>>

\* A fault: validate_op takes &mut self and applies what it accepts.
OuterValidateOpAt_Applies(op) ==
    /\ pre' = outer["self"]
    /\ outer' = IF validate_op(outerOrder, outer["self"], op).ok
                THEN [outer EXCEPT !["self"] = apply(outerOrder, @, op)]
                ELSE outer
    /\ last' = [kind |-> "validate_op", op |-> NoCall.op,
                res |-> validate_op(outerOrder, outer["self"], op)]
    /\ UNCHANGED <<order, rep, delivered, times, outerOrder>>

\* self.validate_op(&op) on the first of the two; the record keeps the
\* result and not the operation.
OuterValidateOpAt(op) ==
    /\ pre' = outer["self"]
    /\ outer' = outer
    /\ last' = [kind |-> "validate_op", op |-> NoCall.op,
                res |-> validate_op(outerOrder, outer["self"], op)]
    /\ UNCHANGED <<order, rep, delivered, times, outerOrder>>

\* self.validate_merge(&other) on the two aggregates.
CallOuterValidateMerge ==
    /\ pre' = outer["self"]
    /\ outer' = outer
    /\ last' = [kind |-> "validate_merge", op |-> NoCall.op,
                res |-> validate_merge(outerOrder, outer["self"],
                                       outer["other"])]
    /\ UNCHANGED <<order, rep, delivered, times, outerOrder>>

\* One Outer aggregate and the calls of the operation contract.
NextOuter ==
    \/ \E op \in OuterOps : CallOuterApply(op)
    \/ \E op \in OuterOps : CallOuterValidateOp(op)

SpecOuter == InitOuter /\ [][NextOuter]_vars

\* Two Outer aggregates and the validating calls of both contracts.
NextOuterMerge ==
    \/ \E x \in {"self", "other"}, op \in OuterOps : OuterApplyAt(x, op)
    \/ \E x \in {"self", "other"}, y \in {"self", "other"} : OuterMergeAt(x, y)
    \/ \E op \in OuterOps : OuterValidateOpAt(op)
    \/ CallOuterValidateMerge

SpecOuterMerge == InitOuter /\ [][NextOuterMerge]_vars

\* ------------------------------------------------------------ claims --
\* Whether the aggregate st holds the effect of every present entry of op.
FieldContains(f, val, fop) ==
    CASE f = "c" -> VClockGet(val, fop.actor) >= fop.counter
      [] f = "s" -> fop \in val

EffectsIn(op, st) ==
    \A f \in {"c", "s"} :
        op[OpName(f)] # None => FieldContains(f, st[f], op[OpName(f)][1])

Fresh(st, op) == op.dot.counter > VClockGet(st.v_clock, op.dot.actor)

\* C1: every issued operation that has reached a replica, once or more and
\* in any order, has had its field entries applied there exactly once.
C1_AppliedExactlyOnce ==
    \A r \in Peers : \A d \in delivered[r] : times[r][d] = 1

\* C2: after apply(op), for any operation (fresh, stale, empty or partly
\* filled), applying the same operation again leaves every field and the
\* tracker as the first application left them.
C2_ApplyIdempotent ==
    last.kind = "apply" =>
        apply(order, rep["r1"], last.op) = rep["r1"]

\* C2 witness: a fresh, non-empty operation was applied and changed the
\* aggregate, which already held other effects.
C2_Witness ==
    /\ last.kind = "apply"
    /\ Fresh(pre, last.op)
    /\ ~AllNone(order, last.op)
    /\ pre # DefaultState
    /\ rep["r1"] # pre

\* C3: two replicas that were delivered the same set of operations, in any
\* order and with any duplicates, hold the same fields and tracker.
C3_SameDeliveriesSameState ==
    delivered["r1"] = delivered["r2"] => rep["r1"] = rep["r2"]

\* C4: merge is commutative and associative over the aggregates that apply
\* and merge produce: merge(a,b) = merge(b,a) and
\* merge(merge(a,b),c) = merge(a,merge(b,c)), fields and tracker alike.
C4_MergeCommutativeAssociative ==
    LET a == rep["r1"]
        b == rep["r2"]
        c == rep["r3"]
    IN  /\ merge(order, a, b) = merge(order, b, a)
        /\ merge(order, merge(order, a, b), c)
             = merge(order, a, merge(order, b, c))

\* C4 witness: three aggregates that hold effects, with pairwise different
\* trackers, where neither merge(a,b) nor merge(b,c) is one of its
\* arguments.
C4_Witness ==
    LET a == rep["r1"]
        b == rep["r2"]
        c == rep["r3"]
    IN  /\ a.v_clock # b.v_clock /\ b.v_clock # c.v_clock
        /\ a.v_clock # c.v_clock
        /\ DefaultState \notin {a, b, c}
        /\ merge(order, a, b) \notin {a, b}
        /\ merge(order, b, c) \notin {b, c}
        /\ a.c # b.c

\* C5: merging an aggregate with a copy of itself leaves every field and the
\* tracker as they were.
C5_MergeIdempotent ==
    \A r \in Replicas : merge(order, rep[r], rep[r]) = rep[r]

\* C5 witness: an aggregate with a counter, a set member and a tracker
\* entry for both actors, which itself came out of a merge.
C5_Witness ==
    /\ rep["r1"].c # VClockDefault
    /\ rep["r1"].s # {}
    /\ \A a \in Actors : VClockGet(rep["r1"].v_clock, a) > 0
    /\ rep["r1"] = merge(order, rep["r2"], rep["r3"])
    /\ rep["r1"] \notin {rep["r2"], rep["r3"]}

\* C6: after r1.merge(r2) and r2.merge(r1) the two replicas hold the same
\* state, the fields hold the effect of every operation either replica had
\* applied, and the tracker is the pointwise maximum of the two trackers.
C6_MutualMergeConverges ==
    LET a == rep["r1"]
        b == rep["r2"]
        a2 == merge(order, a, b)
        b2 == merge(order, b, a2)
    IN  /\ a2 = b2
        /\ merge(order, b, a) = a2
        /\ \A x \in Actors :
             VClockGet(a2.v_clock, x)
               = Max(VClockGet(a.v_clock, x), VClockGet(b.v_clock, x))
        /\ \A r \in Peers, d \in IssuedDots :
             times[r][d] > 0 => EffectsIn(IssuedOp(d), a2)

\* C6 witness: r1 applied only (A,1), the increment, r2 applied only (B,1),
\* the insertion of x, and after the two merges both hold c incremented,
\* s = {x} and the tracker {A:1, B:1}.
C6_Witness ==
    /\ rep["r1"] = rep["r2"]
    /\ rep["r1"].v_clock = [a \in Actors |-> 1]
    /\ VClockGet(rep["r1"].c, "A") = 1
    /\ rep["r1"].s = {"x"}
    /\ \A d \in IssuedDots : times["r1"][d] = IF d = Dot("A", 1) THEN 1 ELSE 0
    /\ \A d \in IssuedDots : times["r2"][d] = IF d = Dot("B", 1) THEN 1 ELSE 0

\* C7: validate_op of an operation whose dot counter is at most the
\* tracker's counter for the dot's actor returns the tracker's staleness
\* error in the VClock variant, whatever the field entries are.
C7_StaleDotRejected ==
    (last.kind = "validate_op" /\ ~Fresh(rep["r1"], last.op)) =>
        last.res = Err("VClock", "Stale")

\* C7 witness: a stale dot with a counter the tracker has recorded, carried
\* by an operation with a present entry, was rejected.
C7_Witness ==
    /\ last.kind = "validate_op"
    /\ last.op.dot.counter > 0
    /\ ~Fresh(rep["r1"], last.op)
    /\ ~AllNone(order, last.op)
    /\ ~last.res.ok

\* C8 as stated: validate_op of an operation whose every entry is absent
\* returns NoneOp in every state and for every such operation.
C8_EmptyAlwaysNoneOp ==
    (last.kind = "validate_op" /\ AllNone(order, last.op)) =>
        last.res = Err("NoneOp", "")

\* C8 amended: validate_op of an operation whose every entry is absent
\* returns NoneOp whenever its dot is newer than the tracker's counter for
\* the dot's actor, and the tracker's staleness error otherwise.
C8_EmptyFreshNoneOp ==
    (last.kind = "validate_op" /\ AllNone(order, last.op)) =>
        last.res = IF Fresh(rep["r1"], last.op)
                   THEN Err("NoneOp", "")
                   ELSE Err("VClock", "Stale")

\* C8 witness: an all-absent operation with a fresh dot was rejected with
\* NoneOp by an aggregate that already held effects.
C8_Witness ==
    /\ last.kind = "validate_op"
    /\ AllNone(order, last.op)
    /\ Fresh(rep["r1"], last.op)
    /\ rep["r1"] # DefaultState
    /\ last.res = Err("NoneOp", "")

\* C9: apply of an operation whose every entry is absent changes no field
\* and not the tracker, even when its dot is newer than the tracker; the
\* dot is not recorded, so a non-empty operation carrying the same dot is
\* still applied afterwards.
C9_EmptyApplyIsNoOp ==
    (last.kind = "apply" /\ AllNone(order, last.op)) =>
        /\ rep["r1"] = pre
        /\ \A op \in Ops :
             (op.dot = last.op.dot /\ ~AllNone(order, op)
                /\ Fresh(pre, last.op)) =>
               LET run == applyRun(order, rep["r1"], op)
               IN  /\ run.delegated = Present(order, op)
                   /\ run.delegated # {}
                   /\ VClockGet(run.state.v_clock, op.dot.actor)
                        = op.dot.counter

\* C9 witness: an all-absent operation with a fresh dot was applied to an
\* aggregate that already held effects.
C9_Witness ==
    /\ last.kind = "apply"
    /\ AllNone(order, last.op)
    /\ Fresh(pre, last.op)
    /\ pre # DefaultState

\* C10: apply of an operation with a fresh dot and at least one present
\* entry gives each present entry to its field's own apply, leaves every
\* field whose entry is absent as it was, sets the tracker's counter for
\* the dot's actor to the dot's counter and leaves the other actors'
\* counters as they were.
C10_FreshApplyEffect ==
    (last.kind = "apply" /\ Fresh(pre, last.op) /\ ~AllNone(order, last.op)) =>
        /\ \A f \in {"c", "s"} :
             rep["r1"][f] =
                IF last.op[OpName(f)] # None
                THEN FieldApply(f, pre[f], last.op[OpName(f)][1])
                ELSE pre[f]
        /\ VClockGet(rep["r1"].v_clock, last.op.dot.actor)
             = last.op.dot.counter
        /\ \A a \in Actors \ {last.op.dot.actor} :
             VClockGet(rep["r1"].v_clock, a) = VClockGet(pre.v_clock, a)

\* C10 witness: the operation {dot (A,1), c_op = Some(increment), s_op =
\* None} was applied while the tracker already held a counter for B: c is
\* incremented, s is as before and the tracker's entry for B is kept.
C10_Witness ==
    /\ last.kind = "apply"
    /\ last.op = [dot |-> Dot("A", 1), c_op |-> Some(Dot("A", 1)),
                  s_op |-> None]
    /\ Fresh(pre, last.op)
    /\ VClockGet(pre.v_clock, "B") > 0
    /\ rep["r1"].c # pre.c
    /\ rep["r1"].s = pre.s
    /\ rep["r1"].v_clock = [pre.v_clock EXCEPT !["A"] = 1]

\* C11: on one replica, over any sequence of apply and merge, the entries
\* of an operation are applied at most once, and once they were applied
\* there, applying any operation of that actor with the same or a lower
\* counter changes nothing.
C11_AppliedAtMostOnce ==
    \A r \in Peers, d \in IssuedDots :
        /\ times[r][d] <= 1
        /\ times[r][d] = 1 =>
             \A op \in Ops :
                (op.dot.actor = d.actor /\ op.dot.counter <= d.counter) =>
                    apply(order, rep[r], op) = rep[r]

\* C11 witness: r1 applied (A,1) once, took a later counter of A from a
\* merge without applying it, and was delivered nothing else.
C11_Witness ==
    /\ times["r1"][Dot("A", 1)] = 1
    /\ times["r1"][Dot("A", 2)] = 0
    /\ VClockGet(rep["r1"].v_clock, "A") = 2
    /\ times["r2"][Dot("A", 2)] = 1

\* C12: no apply and no merge lowers the tracker's counter of any actor.
C12_TrackerMonotonic ==
    [][\A r \in Peers, a \in Actors :
          VClockGet(rep'[r].v_clock, a) >= VClockGet(rep[r].v_clock, a)]_vars

\* C12 witness: r1's tracker holds A's second counter from its own apply
\* and a counter of B that only a merge can have brought.
C12_Witness ==
    /\ times["r1"][Dot("A", 2)] = 1
    /\ VClockGet(rep["r1"].v_clock, "A") = 2
    /\ VClockGet(rep["r1"].v_clock, "B") >= 1
    /\ \A d \in IssuedDots : d.actor = "B" => times["r1"][d] = 0
    /\ rep["r1"] # rep["r2"]

\* C15: validate_op checks staleness, then emptiness, then the entries: a
\* stale dot gives the staleness error whether the operation is all-absent
\* or carries an entry its field rejects, a fresh all-absent operation
\* gives NoneOp, and a field's error is returned only for a fresh dot with
\* a present entry.
C15_ValidateOrder ==
    last.kind = "validate_op" =>
        /\ \/ Fresh(rep["r1"], last.op)
           \/ last.res = Err("VClock", "Stale")
        /\ last.res.variant = "NoneOp" =>
             (Fresh(rep["r1"], last.op) /\ AllNone(order, last.op))
        /\ last.res.variant \in {"C", "S"} =>
             (Fresh(rep["r1"], last.op) /\ ~AllNone(order, last.op))

\* C15 witness: a stale dot carrying an increment the counter field rejects
\* on its own got the staleness error of the tracker.
C15_Witness ==
    /\ last.kind = "validate_op"
    /\ last.op.dot.counter > 0
    /\ ~Fresh(rep["r1"], last.op)
    /\ last.op.c_op # None
    /\ FieldValidateOp("c", rep["r1"].c, last.op.c_op[1]) = "Stale"
    /\ last.res = Err("VClock", "Stale")

\* C17: after self.merge(other), applying to self an operation whose dot
\* counter is at most other's tracker counter for the dot's actor before
\* the merge leaves self unchanged.
C17_DedupAcrossMerge ==
    \A r \in Peers : \A q \in Peers \ {r} :
        LET merged == merge(order, rep[r], rep[q])
        IN  \A op \in Ops :
                op.dot.counter <= VClockGet(rep[q].v_clock, op.dot.actor) =>
                    apply(order, merged, op) = merged

\* C17 witness: r1 never applied (B,1) but holds its insertion and B's
\* counter from a merge, and a delivery of (B,1) now changes nothing.
C17_Witness ==
    /\ \A d \in IssuedDots : d.actor = "B" => times["r1"][d] = 0
    /\ times["r2"][Dot("B", 1)] = 1
    /\ VClockGet(rep["r1"].v_clock, "B") = 1
    /\ rep["r1"].s = {"x"}
    /\ rep["r1"] = merge(order, rep["r1"], rep["r2"])
    /\ apply(order, rep["r1"], IssuedOp(Dot("B", 1))) = rep["r1"]

\* C18: whenever a replica's tracker records the counter n > 0 for an
\* actor, the replica's fields hold the effect of that actor's operation
\* with counter n.
C18_TrackerSound ==
    \A r \in Peers, a \in Actors :
        VClockGet(rep[r].v_clock, a) > 0 =>
            EffectsIn(IssuedOp(Dot(a, VClockGet(rep[r].v_clock, a))), rep[r])

\* C18 witness: r1's tracker records A's second counter, which r1 never
\* applied itself, beside a counter of B that it did apply.
C18_Witness ==
    /\ VClockGet(rep["r1"].v_clock, "A") = 2
    /\ times["r1"][Dot("A", 2)] = 0
    /\ times["r1"][Dot("B", 1)] = 1
    /\ times["r1"][Dot("A", 1)] = 0

\* C19: when validate_op(op) returns Ok, apply(op) leaves the tracker's
\* counter for the dot's actor at the dot's counter, and validate_op(op)
\* then returns the staleness error.
C19_CheckThenApply ==
    (last.kind = "apply" /\ validate_op(order, pre, last.op).ok) =>
        /\ VClockGet(rep["r1"].v_clock, last.op.dot.actor)
             = last.op.dot.counter
        /\ validate_op(order, rep["r1"], last.op) = Err("VClock", "Stale")

\* C19 witness: an operation with both entries present, accepted by an
\* aggregate that already held effects, was applied.
C19_Witness ==
    /\ last.kind = "apply"
    /\ validate_op(order, pre, last.op).ok
    /\ last.op.c_op # None /\ last.op.s_op # None
    /\ pre # DefaultState
    /\ rep["r1"] # pre

\* An entry of the outer operation that its field rejects on its own.
OuterEntryFails(f, st, op) ==
    /\ op[OpName(f)] # None
    /\ FieldValidateOp(f, st[f], op[OpName(f)][1]) # "Ok"

\* C13: validate_op and validate_merge never mutate: whatever they
\* return, the fields and the tracker of the aggregate, and of the other
\* aggregate passed to validate_merge, are as they were before the call.
C13_ValidateNeverMutates ==
    [][last'.kind \in {"validate_op", "validate_merge"} =>
          (outer' = outer /\ rep' = rep)]_vars

\* C13 witness: validate_op accepted an operation on an aggregate that
\* held effects, beside another non-empty aggregate, and the aggregate is
\* what it was before the call.
C13_Witness ==
    /\ last.kind = "validate_op"
    /\ last.res.ok
    /\ pre # OuterDefaultState
    /\ outer["self"] = pre
    /\ outer["other"] # OuterDefaultState
    /\ outer["other"] # outer["self"]

\* C14: when two present entries would each fail their own field's
\* validate_op, validate_op returns the error of the field declared first
\* in the struct, wrapped in that field's variant, on every build.
C14_FirstDeclaredFieldReported ==
    ( /\ last.kind = "validate_op"
      /\ Fresh(pre, last.op)
      /\ OuterEntryFails("inner", pre, last.op)
      /\ OuterEntryFails("w", pre, last.op) ) =>
        last.res = Err(PascalName(OuterDeclaredFields[1]),
                       FieldValidateOp(OuterDeclaredFields[1],
                                       pre[OuterDeclaredFields[1]],
                                       last.op[OpName(OuterDeclaredFields[1])][1]))

\* C16: validate_merge succeeds exactly when every field's own
\* validate_merge against other's field succeeds; when it fails, its error
\* is a failing field's own error in that field's variant, and the tracker
\* is never the failing field.
C16_ValidateMergeByFields ==
    last.kind = "validate_merge" =>
        LET failing ==
                {f \in OuterFieldNames :
                    FieldValidateMerge(f, outer["self"][f],
                                       outer["other"][f]) # "Ok"}
        IN  /\ last.res.ok <=> failing = {}
            /\ ~last.res.ok =>
                 \E f \in failing :
                    last.res = Err(PascalName(f),
                                   FieldValidateMerge(f, outer["self"][f],
                                                      outer["other"][f]))
            /\ "v_clock" \notin failing
            /\ last.res.variant # "VClock"

\* C16 witness: validate_merge failed on the register between two
\* aggregates that also differ in the nested field, which merges freely.
C16_Witness ==
    /\ last.kind = "validate_merge"
    /\ last.res = Err("W", "ConflictingMarker")
    /\ outer["self"].inner # outer["other"].inner
    /\ outer["self"].v_clock # VClockDefault

=============================================================================
